---- MODULE Spec2Model ----
(***************************************************************************)
(* Sparse Merkle proof verification (src/src/proof/mod.rs), the proof      *)
(* container and the sibling bitmap codec (src/src/proof/definition.rs).   *)
(*                                                                         *)
(* Hash values are symbolic terms: a digest is the tuple of its domain tag *)
(* and of what was written into the hasher, so two digests are equal only  *)
(* when domain and input are equal, and none equals the placeholder.       *)
(* Keys are the LENGTH_IN_BITS-bit values 0 .. 2^LENGTH_IN_BITS - 1.       *)
(***************************************************************************)
EXTENDS Integers, Sequences, FiniteSets, TLC

VARIABLES
    phase,               \* position of the caller: see the three specifications
    proof,               \* the SparseMerkleProof built by SparseMerkleProof::new
    expected_root_hash,  \* arguments of the last verify_sparse_merkle_element call
    element_key,
    element_blob,
    result,              \* what that call returned
    tampered,            \* which argument a re-verification changed
    tree,                \* key -> blob map behind the trusted root (SpecTree)
    bits,                \* the boolean sequence given to from_iter
    bitmap,              \* SparseMerkleBitmap.0
    index,               \* SparseMerkleBitmapIterator.index
    len,                 \* SparseMerkleBitmapIterator.len
    decoded              \* the items next() has returned so far

vars == <<phase, proof, expected_root_hash, element_key, element_blob, result,
          tampered, tree, bits, bitmap, index, len, decoded>>

verifier_vars == <<proof, expected_root_hash, element_key, element_blob, result, tampered>>
bitmap_vars == <<bits, bitmap, index, len, decoded>>

(***************************************************************************)
(* Bounds.                                                                 *)
(***************************************************************************)
\* HashValue::LENGTH_IN_BITS, 256 in the program, scaled down so that every
\* key can be enumerated.
LENGTH_IN_BITS == 2

\* Longest boolean sequence handed to the bitmap encoder.
MaxBits == 9

\* Account blobs (their raw bytes stand for themselves).
Blobs == {1, 2}

Keys == 0 .. (2 ^ LENGTH_IN_BITS - 1)

\* A proof may carry more siblings than the tree is deep.
MaxSiblings == LENGTH_IN_BITS + 1

(***************************************************************************)
(* Option<T>, Rust iterator adaptors.                                      *)
(***************************************************************************)
None == <<>>
Some(x) == <<x>>
IsSome(o) == Len(o) = 1
Unwrap(o) == o[1]

Rev(s) == [i \in 1 .. Len(s) |-> s[Len(s) + 1 - i]]

Skip(s, n) == IF n >= Len(s) THEN <<>> ELSE SubSeq(s, n + 1, Len(s))

Zip(a, b) ==
    LET n == IF Len(a) <= Len(b) THEN Len(a) ELSE Len(b)
    IN  [i \in 1 .. n |-> <<a[i], b[i]>>]

(***************************************************************************)
(* Hashing.                                                                *)
(***************************************************************************)
SPARSE_MERKLE_PLACEHOLDER_HASH == <<"P">>

\* AccountStateBlob::hash
BlobHash(blob) == <<"B", blob>>

\* MerkleTreeInternalNode::hash: left child written first, then right child.
InternalHash(left_child, right_child) == <<"I", left_child, right_child>>

\* SparseMerkleLeafNode::hash: key written first, then value hash.
LeafHash(key, value_hash) == <<"L", key, value_hash>>

\* HashValue::iter_bits: the bits of the value, most significant first.
iter_bits(key) ==
    [i \in 1 .. LENGTH_IN_BITS |-> ((key \div (2 ^ (LENGTH_IN_BITS - i))) % 2) = 1]

\* HashValue::common_prefix_bits_len
common_prefix_bits_len(a, b) ==
    LET x == iter_bits(a)
        y == iter_bits(b)
        differ == {i \in 1 .. LENGTH_IN_BITS : x[i] # y[i]}
    IN  IF differ = {} THEN LENGTH_IN_BITS
        ELSE (CHOOSE i \in differ : \A j \in differ : i <= j) - 1

(***************************************************************************)
(* SparseMerkleProof                                                       *)
(***************************************************************************)
NoProof == [leaf |-> None, siblings |-> <<>>]

\* The assert_ne! of SparseMerkleProof::new.
NewAccepts(siblings) ==
    Len(siblings) = 0 \/ siblings[Len(siblings)] # SPARSE_MERKLE_PLACEHOLDER_HASH

(***************************************************************************)
(* verify_sparse_merkle_element                                            *)
(***************************************************************************)
\* Faulty variant: the depth check left out.
NoDepthCheck(siblings) == TRUE

\* Faulty variant: one sibling too many let through.
DepthCheckOffByOne(siblings) == Len(siblings) <= LENGTH_IN_BITS + 1

\* ensure!(siblings.len() <= HashValue::LENGTH_IN_BITS, ...)
DepthCheck(siblings) == Len(siblings) <= LENGTH_IN_BITS

\* Faulty variant: the proof's key not compared.
AnyKey(key, proof_key) == TRUE

\* ensure!(element_key == proof_key, "Keys do not match. ...")
KeysMatch(key, proof_key) == key = proof_key

\* Faulty variant: the proof's value hash not compared.
AnyValueHash(hash, proof_value_hash) == TRUE

\* ensure!(hash == proof_value_hash, "Value hashes do not match. ...")
ValueHashesMatch(hash, proof_value_hash) == hash = proof_value_hash

\* Faulty variant: the common prefix not compared with the number of siblings.
AnyPrefix(key, proof_key, siblings) == TRUE

\* ensure!(element_key.common_prefix_bits_len(proof_key) >= siblings.len(), ...)
PrefixCoversSiblings(key, proof_key, siblings) ==
    common_prefix_bits_len(key, proof_key) >= Len(siblings)

\* Faulty variant: the (Some(_), None) arm missing, the call going on to the
\* root as for (None, None).
ShapeCheckByLeafOnly(key, blob, leaf, siblings) ==
    IF IsSome(blob) /\ IsSome(leaf) THEN
        IF ~KeysMatch(key, Unwrap(leaf)[1]) THEN "KeyMismatch"
        ELSE IF ~ValueHashesMatch(BlobHash(Unwrap(blob)), Unwrap(leaf)[2])
             THEN "ValueMismatch"
        ELSE "Ok"
    ELSE IF IsSome(leaf) THEN
        IF ~(key # Unwrap(leaf)[1]) THEN "NonInclusionKeyExists"
        ELSE IF ~PrefixCoversSiblings(key, Unwrap(leaf)[1], siblings)
             THEN "InvalidNonInclusionProof"
        ELSE "Ok"
    ELSE "Ok"

\* match (element_blob, sparse_merkle_proof.leaf()) { ... }: the kind of the
\* first ensure!/bail! that fails, "Ok" when the match falls through.
ShapeCheck(key, blob, leaf, siblings) ==
    IF IsSome(blob) /\ IsSome(leaf) THEN
        \* (Some(blob), Some((proof_key, proof_value_hash)))
        IF ~KeysMatch(key, Unwrap(leaf)[1]) THEN "KeyMismatch"
        ELSE IF ~ValueHashesMatch(BlobHash(Unwrap(blob)), Unwrap(leaf)[2])
             THEN "ValueMismatch"
        ELSE "Ok"
    ELSE IF IsSome(blob) THEN
        \* (Some(_blob), None) => bail!("Expected inclusion proof. Found
        \* non-inclusion proof.")
        "ExpectedInclusionFoundNonInclusion"
    ELSE IF IsSome(leaf) THEN
        \* (None, Some((proof_key, _)))
        \* ensure!(element_key != proof_key, "Expected non-inclusion proof, but
        \* key exists in proof.")
        IF ~(key # Unwrap(leaf)[1]) THEN "NonInclusionKeyExists"
        ELSE IF ~PrefixCoversSiblings(key, Unwrap(leaf)[1], siblings)
             THEN "InvalidNonInclusionProof"
        ELSE "Ok"
    \* (None, None)
    ELSE "Ok"

\* let current_hash = match sparse_merkle_proof.leaf() { ... }
CurrentHash(leaf) ==
    IF IsSome(leaf) THEN LeafHash(Unwrap(leaf)[1], Unwrap(leaf)[2])
    ELSE SPARSE_MERKLE_PLACEHOLDER_HASH

\* Faulty variant: the two sides exchanged.
FoldStepSwapped(hash, sibling_hash, bit) ==
    IF bit THEN InternalHash(hash, sibling_hash)
    ELSE InternalHash(sibling_hash, hash)

\* The closure given to fold.
FoldStep(hash, sibling_hash, bit) ==
    IF bit THEN InternalHash(sibling_hash, hash)
    ELSE InternalHash(hash, sibling_hash)

RECURSIVE Fold(_, _)
Fold(hash, pairs) ==
    IF pairs = <<>> THEN hash
    ELSE Fold(FoldStep(hash, pairs[1][1], pairs[1][2]), Tail(pairs))

\* Faulty variant: no bit skipped, the least significant bit paired with the
\* leaf-most sibling.
KeyBitsNoSkip(key, n) == Rev(iter_bits(key))

\* element_key.iter_bits().rev().skip(HashValue::LENGTH_IN_BITS - n), the
\* subtraction having succeeded.
KeyBits(key, n) == Skip(Rev(iter_bits(key)), LENGTH_IN_BITS - n)

\* usize subtraction HashValue::LENGTH_IN_BITS - siblings.len(): whether it
\* underflows.
SkipUnderflows(siblings) == Len(siblings) > LENGTH_IN_BITS

\* siblings.iter().rev().zip(...).fold(current_hash, ...)
ActualRootHash(key, leaf, siblings) ==
    Fold(CurrentHash(leaf), Zip(Rev(siblings), KeyBits(key, Len(siblings))))

\* ensure!(actual_root_hash == expected_root_hash, ...)
RootCheck(actual_root_hash, root) ==
    IF actual_root_hash = root THEN "Ok" ELSE "RootMismatch"

\* The outcomes of one call: a single one, unless the build decides. When the
\* subtraction underflows, a build with overflow checks panics ("Panic") and a
\* build without wraps to a count larger than the number of bits, so that skip
\* leaves no bit and the fold returns current_hash.
verify_sparse_merkle_element(root, key, blob, smp) ==
    IF ~DepthCheck(smp.siblings) THEN {"TooManySiblings"}
    ELSE LET shape == ShapeCheck(key, blob, smp.leaf, smp.siblings)
         IN  IF shape # "Ok" THEN {shape}
             ELSE IF SkipUnderflows(smp.siblings)
                  THEN {"Panic", RootCheck(CurrentHash(smp.leaf), root)}
                  ELSE {RootCheck(ActualRootHash(key, smp.leaf, smp.siblings), root)}

(***************************************************************************)
(* SparseMerkleBitmap                                                      *)
(***************************************************************************)
RECURSIVE BitOr8(_, _, _)
\* a | b on u8, bit by bit from bit n down.
BitOr8(a, b, n) ==
    IF n = 0 THEN 0
    ELSE (IF a % 2 = 1 \/ b % 2 = 1 THEN 1 ELSE 0)
         + 2 * BitOr8(a \div 2, b \div 2, n - 1)

\* (bit as u8) << s on u8
Shl8(x, s) == (x * (2 ^ s)) % 256

RECURSIVE FromIterLoop(_, _, _)
\* The for loop of from_iter, at the i-th item of the iterator (from 1).
FromIterLoop(bm, iter, i) ==
    IF i > Len(iter) THEN bm
    ELSE LET pos == (i - 1) % 8
             pushed == IF pos = 0 THEN Append(bm, 0) ELSE bm
             last_byte == pushed[Len(pushed)]
             bit == IF iter[i] THEN 1 ELSE 0
         IN  FromIterLoop(
                 [pushed EXCEPT ![Len(pushed)] = BitOr8(last_byte, Shl8(bit, 7 - pos), 8)],
                 iter, i + 1)

\* impl FromIterator<bool> for SparseMerkleBitmap
from_iter(iter) == FromIterLoop(<<>>, iter, 1)

RECURSIVE trailing_zeros(_, _)
\* u8::trailing_zeros, n the bits left to look at (8 for a byte).
trailing_zeros(byte, n) ==
    IF n = 0 \/ byte % 2 = 1 THEN 0 ELSE 1 + trailing_zeros(byte \div 2, n - 1)

\* The assert_ne! of SparseMerkleBitmapIterator::new
IterNewAccepts(bm) == Len(bm) = 0 \/ bm[Len(bm)] # 0

\* SparseMerkleBitmapIterator::new: the len field
IterLen(bm) ==
    IF Len(bm) = 0 THEN 0
    ELSE Len(bm) * 8 - trailing_zeros(bm[Len(bm)], 8)

\* next(): self.bitmap[pos] >> (7 - bit) & 1 != 0
IterItem(bm, idx) ==
    LET pos == idx \div 8
        bit == idx % 8
    IN  ((bm[pos + 1] \div (2 ^ (7 - bit))) % 2) # 0

(***************************************************************************)
(* The tree behind a trusted root: every key has its position, an empty    *)
(* subtree hashes to the placeholder and a subtree with a single leaf      *)
(* collapses to that leaf.                                                 *)
(***************************************************************************)
\* The keys below the node at depth d whose path from the root is p.
KeysBelow(t, d, p) == {k \in DOMAIN t : k \div (2 ^ (LENGTH_IN_BITS - d)) = p}

RECURSIVE SubtreeHash(_, _, _)
SubtreeHash(t, d, p) ==
    LET ks == KeysBelow(t, d, p)
    IN  IF ks = {} THEN SPARSE_MERKLE_PLACEHOLDER_HASH
        ELSE IF Cardinality(ks) = 1
             THEN LET k == CHOOSE k \in ks : TRUE IN LeafHash(k, BlobHash(t[k]))
        ELSE InternalHash(SubtreeHash(t, d + 1, 2 * p), SubtreeHash(t, d + 1, 2 * p + 1))

RootHash(t) == SubtreeHash(t, 0, 0)

\* Every node hash of the tree: what a prover reading the tree can send.
NodeHashes(t) ==
    {SubtreeHash(t, d, p) : <<d, p>> \in
        {<<d, p>> \in (0 .. LENGTH_IN_BITS) \X Keys : p < 2 ^ d}}

EmptyTree == <<>>

\* The map after putting blob v at key k.
Put(t, k, v) == [x \in (DOMAIN t) \cup {k} |-> IF x = k THEN v ELSE t[x]]

(***************************************************************************)
(* Inputs.                                                                 *)
(***************************************************************************)
SeqsUpTo(S, n) == UNION {[1 .. m -> S] : m \in 0 .. n}

OptionOf(S) == {None} \cup {Some(x) : x \in S}

ValueHashInputs == {BlobHash(v) : v \in Blobs}

LeafInputs == OptionOf(Keys \X ValueHashInputs)

\* Sibling hashes an untrusted prover sends: the placeholder, a leaf hash and
\* an internal hash.
SiblingInputs ==
    {SPARSE_MERKLE_PLACEHOLDER_HASH,
     LeafHash(0, BlobHash(1)),
     InternalHash(SPARSE_MERKLE_PLACEHOLDER_HASH, LeafHash(0, BlobHash(1)))}

\* Bit d (0 the most significant) of a key.
KeyBit(key, d) == ((key \div (2 ^ (LENGTH_IN_BITS - 1 - d))) % 2) = 1

RECURSIVE NodeOnPath(_, _, _, _)
\* The hash of the node at depth d on the path of `key`, in a tree where the
\* node at depth Len(siblings) on that path hashes to `start` and
\* siblings[j] is the hash of the sibling of the path's node at depth j.
NodeOnPath(key, start, siblings, d) ==
    IF d >= Len(siblings) THEN start
    ELSE LET below == NodeOnPath(key, start, siblings, d + 1)
         IN  IF KeyBit(key, d)
             THEN InternalHash(siblings[d + 1], below)
             ELSE InternalHash(below, siblings[d + 1])

PathRoot(key, start, siblings) == NodeOnPath(key, start, siblings, 0)

\* Root hashes a caller may trust: the root of the path of the element key or
\* of the proof's key through the proof's siblings, or an unrelated hash.
RootInputs(key, smp) ==
    SiblingInputs
    \cup (IF Len(smp.siblings) <= LENGTH_IN_BITS
          THEN {PathRoot(key, CurrentHash(smp.leaf), smp.siblings)}
               \cup (IF IsSome(smp.leaf)
                     THEN {PathRoot(Unwrap(smp.leaf)[1], CurrentHash(smp.leaf),
                                    smp.siblings)}
                     ELSE {})
          ELSE {CurrentHash(smp.leaf)})

(***************************************************************************)
(* The verifier and its callers.                                           *)
(***************************************************************************)
Idle ==
    /\ proof = NoProof
    /\ expected_root_hash = SPARSE_MERKLE_PLACEHOLDER_HASH
    /\ element_key = 0
    /\ element_blob = None
    /\ result = "none"
    /\ tampered = "none"

BitmapIdle ==
    /\ bits = <<>>
    /\ bitmap = <<>>
    /\ index = 0
    /\ len = 0
    /\ decoded = <<>>

Init ==
    /\ phase = "new"
    /\ Idle
    /\ tree = EmptyTree
    /\ BitmapIdle

\* SparseMerkleProof::new(leaf, siblings), its assert_ne! included.
New(leaf, siblings) ==
    /\ IF NewAccepts(siblings)
       THEN /\ proof' = [leaf |-> leaf, siblings |-> siblings]
            /\ phase' = "built"
       ELSE /\ proof' = proof
            /\ phase' = "panicked"
    /\ UNCHANGED <<expected_root_hash, element_key, element_blob, result, tampered>>
    /\ UNCHANGED tree
    /\ UNCHANGED bitmap_vars

\* One call verify_sparse_merkle_element(root, key, &blob, &smp).
Call(root, key, blob, smp, next_phase) ==
    /\ expected_root_hash' = root
    /\ element_key' = key
    /\ element_blob' = blob
    /\ proof' = smp
    /\ result' \in verify_sparse_merkle_element(root, key, blob, smp)
    /\ phase' = next_phase
    /\ UNCHANGED tree
    /\ UNCHANGED bitmap_vars

NewProof ==
    /\ phase = "new"
    /\ \E leaf \in LeafInputs, siblings \in SeqsUpTo(SiblingInputs, MaxSiblings) :
            New(leaf, siblings)

Verify ==
    /\ phase = "built"
    /\ \E key \in Keys, blob \in OptionOf(Blobs) :
         \E root \in RootInputs(key, proof) :
            /\ Call(root, key, blob, proof, "verified")
            /\ UNCHANGED tampered

\* The call that succeeded was an inclusion claim.
ValidInclusion ==
    /\ phase = "verified"
    /\ result = "Ok"
    /\ IsSome(element_blob)

\* The caller verifies again with another root.
TamperRoot ==
    /\ ValidInclusion
    /\ \E root \in RootInputs(element_key, proof) \ {expected_root_hash} :
            Call(root, element_key, element_blob, proof, "reverified")
    /\ tampered' = "root"

\* The caller verifies again with another key.
TamperKey ==
    /\ ValidInclusion
    /\ \E key \in Keys \ {element_key} :
            Call(expected_root_hash, key, element_blob, proof, "reverified")
    /\ tampered' = "key"

\* The caller verifies again with a blob of another hash.
TamperValue ==
    /\ ValidInclusion
    /\ \E blob \in Blobs :
         /\ BlobHash(blob) # BlobHash(Unwrap(element_blob))
         /\ Call(expected_root_hash, element_key, Some(blob), proof, "reverified")
    /\ tampered' = "value"

\* The caller verifies again with a proof rebuilt with one sibling changed.
TamperSibling ==
    /\ ValidInclusion
    /\ \E i \in 1 .. Len(proof.siblings) :
         \E h \in SiblingInputs \ {proof.siblings[i]} :
            LET siblings == [proof.siblings EXCEPT ![i] = h]
            IN  IF NewAccepts(siblings)
                THEN Call(expected_root_hash, element_key, element_blob,
                          [leaf |-> proof.leaf, siblings |-> siblings], "reverified")
                ELSE /\ phase' = "panicked"
                     /\ UNCHANGED <<proof, expected_root_hash, element_key,
                                    element_blob, result>>
                     /\ UNCHANGED tree
                     /\ UNCHANGED bitmap_vars
    /\ tampered' = "sibling"

Next ==
    \/ NewProof
    \/ Verify
    \/ TamperRoot
    \/ TamperKey
    \/ TamperValue
    \/ TamperSibling

Spec == Init /\ [][Next]_vars

(***************************************************************************)
(* The verifier against a tree.                                            *)
(***************************************************************************)
\* Keys the tree may hold: two that part at the last bit and one that parts
\* from them at the first.
TreeKeys == {0, 1, 2 ^ LENGTH_IN_BITS - 1}

Insert ==
    /\ phase = "new"
    /\ \E k \in TreeKeys, v \in Blobs : tree' = Put(tree, k, v)
    /\ UNCHANGED phase
    /\ UNCHANGED verifier_vars
    /\ UNCHANGED bitmap_vars

\* A prover that reads the tree builds a proof out of the tree's node hashes.
NewProofOfTree ==
    /\ phase = "new"
    /\ \E leaf \in LeafInputs, siblings \in SeqsUpTo(NodeHashes(tree), LENGTH_IN_BITS) :
            New(leaf, siblings)

\* The caller trusts the root of the tree.
VerifyAgainstTree ==
    /\ phase = "built"
    /\ \E key \in Keys, blob \in OptionOf(Blobs) :
            Call(RootHash(tree), key, blob, proof, "verified")
    /\ UNCHANGED tampered

NextTree ==
    \/ Insert
    \/ NewProofOfTree
    \/ VerifyAgainstTree

SpecTree == Init /\ [][NextTree]_vars

(***************************************************************************)
(* The bitmap codec.                                                       *)
(***************************************************************************)
\* SparseMerkleBitmap::from_iter(iter)
FromIter ==
    /\ phase = "new"
    /\ \E iter \in SeqsUpTo(BOOLEAN, MaxBits) :
         /\ bits' = iter
         /\ bitmap' = from_iter(iter)
    /\ phase' = "encoded"
    /\ UNCHANGED <<index, len, decoded>>
    /\ UNCHANGED verifier_vars
    /\ UNCHANGED tree

\* SparseMerkleBitmap::iter(), that is SparseMerkleBitmapIterator::new
Iter ==
    /\ phase = "encoded"
    /\ IF IterNewAccepts(bitmap)
       THEN /\ index' = 0
            /\ len' = IterLen(bitmap)
            /\ phase' = "iterating"
       ELSE /\ phase' = "panicked"
            /\ UNCHANGED <<index, len>>
    /\ UNCHANGED <<bits, bitmap, decoded>>
    /\ UNCHANGED verifier_vars
    /\ UNCHANGED tree

\* SparseMerkleBitmapIterator::next
IterNext ==
    /\ phase = "iterating"
    /\ IF index >= len
       THEN /\ phase' = "exhausted"
            /\ UNCHANGED <<index, decoded>>
       ELSE /\ decoded' = Append(decoded, IterItem(bitmap, index))
            /\ index' = index + 1
            /\ UNCHANGED phase
    /\ UNCHANGED <<bits, bitmap, len>>
    /\ UNCHANGED verifier_vars
    /\ UNCHANGED tree

NextBitmap ==
    \/ FromIter
    \/ Iter
    \/ IterNext

SpecBitmap == Init /\ [][NextBitmap]_vars

(***************************************************************************)
(* Properties.                                                             *)
(***************************************************************************)
Called == phase \in {"verified", "reverified"}

ProofKey == Unwrap(proof.leaf)[1]

ProofValueHash == Unwrap(proof.leaf)[2]

WithinDepth == Len(proof.siblings) <= LENGTH_IN_BITS

\* The call is the inclusion claim of the spec's "valid inclusion": the proof's
\* leaf is (K, hash(V)) and the root is the one the siblings lead to along K.
HonestInclusion ==
    /\ phase = "verified"
    /\ IsSome(element_blob)
    /\ WithinDepth
    /\ proof.leaf = Some(<<element_key, BlobHash(Unwrap(element_blob))>>)
    /\ expected_root_hash =
          PathRoot(element_key,
                   LeafHash(element_key, BlobHash(Unwrap(element_blob))),
                   proof.siblings)

\* C1: a proof of (K, hash(V)) with at most LENGTH_IN_BITS siblings verifies
\* against the root obtained by combining the leaf hash with each sibling on
\* the side K's bit at the sibling's depth chooses.
C1_ValidInclusion == HonestInclusion => result = "Ok"

C1_Witness ==
    /\ HonestInclusion
    /\ Len(proof.siblings) = LENGTH_IN_BITS
    /\ result = "Ok"

\* C2: against the root of a tree built from a key -> blob map, a successful
\* inclusion call means the map holds the key with a blob of the same hash, and
\* a successful non-inclusion call means the map does not hold the key.
C2_SoundAgainstTree ==
    (phase = "verified" /\ result = "Ok" /\ expected_root_hash = RootHash(tree)) =>
        IF IsSome(element_blob)
        THEN /\ element_key \in DOMAIN tree
             /\ BlobHash(tree[element_key]) = BlobHash(Unwrap(element_blob))
        ELSE element_key \notin DOMAIN tree

C2_Witness ==
    /\ phase = "verified"
    /\ result = "Ok"
    /\ expected_root_hash = RootHash(tree)
    /\ IsSome(element_blob)
    /\ Len(proof.siblings) = LENGTH_IN_BITS
    /\ Cardinality(DOMAIN tree) = 3

\* C3 as claimed: after a valid inclusion call, changing the value gives
\* ValueMismatch and changing the root, a sibling or the key gives RootMismatch.
C3_TamperAsClaimed ==
    phase = "reverified" =>
        /\ tampered = "value" => result = "ValueMismatch"
        /\ tampered \in {"root", "sibling", "key"} => result = "RootMismatch"

\* C3, amended: changing the value gives ValueMismatch, changing the key gives
\* KeyMismatch, and changing the root or a sibling gives RootMismatch.
C3_TamperDetected ==
    phase = "reverified" =>
        /\ tampered = "value" => result = "ValueMismatch"
        /\ tampered = "key" => result = "KeyMismatch"
        /\ tampered \in {"root", "sibling"} => result = "RootMismatch"

C3_Witness ==
    /\ phase = "reverified"
    /\ tampered = "key"
    /\ Len(proof.siblings) = LENGTH_IN_BITS
    /\ result = "KeyMismatch"

\* The call is a non-inclusion claim against a proof with a leaf (K1, h) whose
\* siblings lead to the root along K1.
NonInclusionByLeaf ==
    /\ phase = "verified"
    /\ element_blob = None
    /\ IsSome(proof.leaf)
    /\ WithinDepth
    /\ expected_root_hash =
          PathRoot(ProofKey, LeafHash(ProofKey, ProofValueHash), proof.siblings)

\* C4: with N siblings, such a call succeeds for every other key sharing at
\* least N leading bits with K1, fails with InvalidNonInclusionProof for a key
\* sharing fewer, and fails with NonInclusionKeyExists for K1 itself.
C4_NonInclusionByLeaf ==
    NonInclusionByLeaf =>
        result = IF element_key = ProofKey THEN "NonInclusionKeyExists"
                 ELSE IF common_prefix_bits_len(element_key, ProofKey)
                            >= Len(proof.siblings)
                      THEN "Ok"
                 ELSE "InvalidNonInclusionProof"

C4_Witness ==
    /\ NonInclusionByLeaf
    /\ element_key # ProofKey
    /\ Len(proof.siblings) >= 1
    /\ common_prefix_bits_len(element_key, ProofKey) = Len(proof.siblings)
    /\ result = "Ok"

\* C5: the proof without leaf and without siblings shows any key absent under
\* the placeholder root; and a proof without leaf (at most LENGTH_IN_BITS
\* siblings) fails an inclusion claim with ExpectedInclusionFoundNonInclusion,
\* whatever the root and the key.
C5_NonInclusionByEmptySubtree ==
    (phase = "verified" /\ proof.leaf = None) =>
        /\ (/\ element_blob = None
            /\ proof.siblings = <<>>
            /\ expected_root_hash = SPARSE_MERKLE_PLACEHOLDER_HASH) => result = "Ok"
        /\ (IsSome(element_blob) /\ WithinDepth) =>
                result = "ExpectedInclusionFoundNonInclusion"

C5_Witness ==
    /\ phase = "verified"
    /\ proof.leaf = None
    /\ IsSome(element_blob)
    /\ Len(proof.siblings) = LENGTH_IN_BITS
    /\ expected_root_hash =
          PathRoot(element_key, SPARSE_MERKLE_PLACEHOLDER_HASH, proof.siblings)
    /\ result = "ExpectedInclusionFoundNonInclusion"

\* C6: a proof with more than LENGTH_IN_BITS siblings fails with
\* TooManySiblings, whatever the root, the key, the blob and the leaf.
C6_DepthBound ==
    (Called /\ Len(proof.siblings) > LENGTH_IN_BITS) => result = "TooManySiblings"

C6_Witness ==
    /\ phase = "verified"
    /\ Len(proof.siblings) > LENGTH_IN_BITS
    /\ IsSome(element_blob)
    /\ IsSome(proof.leaf)
    /\ element_key # ProofKey
    /\ result = "TooManySiblings"

ResultKinds ==
    {"Ok", "TooManySiblings", "KeyMismatch", "ValueMismatch",
     "ExpectedInclusionFoundNonInclusion", "NonInclusionKeyExists",
     "InvalidNonInclusionProof", "RootMismatch"}

\* C7: a call on a proof that SparseMerkleProof::new returned ends with Ok or
\* one of the seven error kinds, never with a panic, and a call that got to the
\* subtraction LENGTH_IN_BITS - siblings.len() (one that ended with Ok or
\* RootMismatch) had at most LENGTH_IN_BITS siblings.
C7_NeverAborts ==
    Called =>
        /\ result \in ResultKinds
        /\ result \in {"Ok", "RootMismatch"} => ~SkipUnderflows(proof.siblings)

C7_Witness ==
    /\ phase = "verified"
    /\ SkipUnderflows(proof.siblings)
    /\ proof.leaf = None
    /\ element_blob = None
    /\ result = "TooManySiblings"

RECURSIVE TrimTrailingFalse(_)
TrimTrailingFalse(b) ==
    IF Len(b) = 0 \/ b[Len(b)] THEN b
    ELSE TrimTrailingFalse(SubSeq(b, 1, Len(b) - 1))

\* C8: decoding the bitmap encoded from a boolean sequence completes and
\* yields the sequence without its trailing run of false.
C8_BitmapRoundTrip ==
    phase \in {"exhausted", "panicked"} =>
        /\ phase = "exhausted"
        /\ decoded = TrimTrailingFalse(bits)

\* C9: the bytes encoded from a boolean sequence are empty or end in a
\* non-zero byte.
C9_EncoderCanonical ==
    phase = "encoded" => (Len(bitmap) = 0 \/ bitmap[Len(bitmap)] # 0)

RECURSIVE FoldFromBit(_, _, _, _, _)
\* The hash after steps i, i + 1, ... of the walk from the leaf-most sibling
\* (step 0) to the root-most, step j taking the key's bit at position
\* first - j (0 the most significant).
FoldFromBit(hash, siblings, key, i, first) ==
    IF i >= Len(siblings) THEN hash
    ELSE LET sibling == siblings[Len(siblings) - i]
         IN  FoldFromBit(IF KeyBit(key, first - i)
                         THEN InternalHash(sibling, hash)
                         ELSE InternalHash(hash, sibling),
                         siblings, key, i + 1, first)

ReachedRootCheck == Called /\ result \in {"Ok", "RootMismatch"}

\* C10 as claimed: step i of the walk takes the key's bit at position
\* LENGTH_IN_BITS - 1 - i, so the call succeeds exactly when the root is the
\* hash folded in that order.
C10_BitOrderAsClaimed ==
    ReachedRootCheck =>
        (result = "Ok") =
            (expected_root_hash =
                FoldFromBit(CurrentHash(proof.leaf), proof.siblings, element_key,
                            0, LENGTH_IN_BITS - 1))

\* C10, amended: with n siblings, step i takes the key's bit at position
\* n - 1 - i: the bits consumed are the n most significant, positions 0 to
\* n - 1, the one at n - 1 first; a 1 bit gives internal_hash(sibling, current)
\* and a 0 bit internal_hash(current, sibling).
C10_BitOrder ==
    ReachedRootCheck =>
        (result = "Ok") =
            (expected_root_hash =
                FoldFromBit(CurrentHash(proof.leaf), proof.siblings, element_key,
                            0, Len(proof.siblings) - 1))

C10_Witness ==
    /\ phase = "verified"
    /\ result = "Ok"
    /\ Len(proof.siblings) >= 1
    /\ Len(proof.siblings) < LENGTH_IN_BITS
    /\ expected_root_hash #
          FoldFromBit(CurrentHash(proof.leaf), proof.siblings, element_key,
                      0, LENGTH_IN_BITS - 1)

====
